---- MODULE Spec2Model ----
(***************************************************************************)
(* The file picker of nextcloud-dialogs: the FilePicker component          *)
(* (components/FilePicker/FilePicker.vue), which holds the view, the path, *)
(* the selection and the filters of one dialog, and FilePicker.pick()      *)
(* (filepicker.ts), which turns the dialog's close events into the         *)
(* settlement of one promise.                                              *)
(*                                                                         *)
(* Strings are sequences of one-character strings, so that startsWith,     *)
(* includes, toLowerCase and path.join are computed and not assumed.       *)
(***************************************************************************)
EXTENDS Integers, Sequences, FiniteSets, TLC

(***************************************************************************)
(* Bounds of the model.                                                    *)
(***************************************************************************)
\* the most entries a multi-select selection holds
MaxSelected == 2
\* the most directory lookups (getFile) in flight at once
MaxPending == 1
\* the most close events of one session that are followed
MaxCloseEvents == 2
\* the most createFolder requests of one session that are followed
MaxCreates == 1
\* the most calls made on one builder
MaxCalls == 3

(***************************************************************************)
(* Strings.                                                                *)
(***************************************************************************)
\* JavaScript's undefined, for an optional string
Undefined == <<"undefined">>

\* the empty string
EmptyString == <<>>

\* a value that `a || b` skips
Falsy(s) == s = Undefined \/ s = EmptyString

\* a || b on optional strings
OrElse(a, b) == IF Falsy(a) THEN b ELSE a

LowerChar(c) ==
    CASE c = "A" -> "a"
      [] c = "B" -> "b"
      [] OTHER -> c

\* String.prototype.toLowerCase
toLowerCase(s) == [i \in 1..Len(s) |-> LowerChar(s[i])]

\* String.prototype.startsWith
startsWith(s, p) == Len(s) >= Len(p) /\ SubSeq(s, 1, Len(p)) = p

\* String.prototype.includes
includes(s, q) == \E i \in 0..(Len(s) - Len(q)) : SubSeq(s, i + 1, i + Len(q)) = q

\* path.join(dir, name) of a normalized absolute directory and a name
join(dir, name) == IF dir = <<"/">> THEN dir \o name ELSE dir \o <<"/">> \o name

(***************************************************************************)
(* Entries of the remote file store.                                       *)
(***************************************************************************)
NoMime == <<>>
DirMime == <<"httpd", "unix-directory">>
TextPlain == <<"text", "plain">>
ImagePng == <<"image", "png">>

Node(dir, name, type, mime) ==
    [path |-> join(dir, name), basename |-> name, type |-> type, mime |-> mime]

RootPath == <<"/">>
DocsPath == <<"/", "A", "b">>
HiddenPath == <<"/", ".", "g">>

\* the directories of the store
Directories == {RootPath, DocsPath, HiddenPath}

\* the listing of each directory, in the order the store returns it
DirectoryListing(path) ==
    CASE path = RootPath ->
            << Node(RootPath, <<".", "g">>, "folder", DirMime),
               Node(RootPath, <<".", "a">>, "file", TextPlain),
               Node(RootPath, <<"A", "b">>, "folder", DirMime),
               Node(RootPath, <<"B">>, "file", ImagePng) >>
      [] path = DocsPath ->
            << Node(DocsPath, <<"a">>, "file", NoMime),
               Node(DocsPath, <<"b">>, "file", TextPlain) >>
      [] OTHER -> << >>

VARIABLE
    created           \* the folders createDirectory added to the store, in order

\* the folders created in a directory
createdIn(path) ==
    LET inPath(f) == f.path = join(path, f.basename) IN SelectSeq(created, inPath)

\* what the store lists for a view and a path
RemoteFiles(view, path) ==
    CASE view = "files" -> DirectoryListing(path) \o createdIn(path)
      [] view = "favorites" ->
            << Node(RootPath, <<"A", "b">>, "folder", DirMime),
               Node(DocsPath, <<"b">>, "file", TextPlain) >>
      [] OTHER ->
            << Node(RootPath, <<"B">>, "file", ImagePng) >>

\* the name of a normalized absolute path: what follows its last slash
RECURSIVE pathBasename(_)
pathBasename(p) ==
    IF p = << >> \/ p[Len(p)] = "/" THEN << >>
    ELSE pathBasename(SubSeq(p, 1, Len(p) - 1)) \o << p[Len(p)] >>

\* the entry the store returns for a directory itself
DirectoryNode(path) ==
    [path |-> path, basename |-> pathBasename(path), type |-> "folder", mime |-> DirMime]

(***************************************************************************)
(* The configuration of a session (the props of the component).            *)
(***************************************************************************)
\* the caller predicates tried: none, and one that accepts files only
FilterFns == {"undefined", "filesOnly"}

\* props.filterFn(f)
callFilterFn(fn, f) == fn = "filesOnly" => f.type = "file"

TextHtml == <<"text", "html">>

\* the mime allow-lists tried: none, and a wildcard with an exact type
MimeFilters == { << >>, << <<"image", "*">>, TextHtml >> }

\* the start paths a caller passes: none, or a directory
StartPaths == {Undefined, DocsPath}

\* what sessionStorage holds under NC.FilePicker.LastPath when a session
\* starts: nothing, or a directory other than the start path a caller passes
StoredPaths == {Undefined, HiddenPath}

\* the free-text queries typed
FilterTexts == { << >>, <<"B">> }

Views == {"files", "favorites", "recent"}

\* the configurations a caller builds
Props ==
    [ multiselect : BOOLEAN,
      allowPickDirectory : BOOLEAN,
      path : StartPaths,
      mimetypeFilter : MimeFilters,
      filterFn : FilterFns ]

VARIABLES
    props,            \* the props of the component, fixed for the session
    storage,          \* sessionStorage['NC.FilePicker.LastPath']
    savedPath,        \* ref savedPath
    currentView,      \* ref currentView
    navigatedPath,    \* ref navigatedPath
    selectedFiles,    \* ref selectedFiles
    filterString,     \* ref filterString
    showHiddenFiles,  \* useFilesSettings().showHiddenFiles
    settingsPending,  \* the settings request has not been answered
    files,            \* useDAVFiles().files
    isLoading,        \* useDAVFiles().isLoading
    open,             \* the dialog is mounted
    promise,          \* the promise pick() returned
    pendingLookups,   \* the paths of the getFile calls in flight
    closeLog,         \* the 'close' events emitted, in order
    callbackLog,      \* the node lists handed to button.callback, in order
    unhandled,        \* a wrapped button callback rejected and nobody handles it
    lastNavigated,    \* the path last navigated to, the initial path before that
    pendingCreates,   \* the onCreateFolder calls that wait at an await
    notifications,    \* the 'files:node:created' events emitted on the event bus
    errorsShown,      \* the number of showError toasts
    builder,          \* the fields of a FilePickerBuilder
    picker,           \* the FilePicker build() returned, if any
    dialog,           \* the props pick() handed to spawnDialog, if any
    warnings,         \* the number of console.warn calls of the builder
    calls             \* the number of calls made on the builder

createVars == << created, pendingCreates, notifications, errorsShown >>

builderVars == << builder, picker, dialog, warnings, calls >>

vars ==
    << props, storage, savedPath, currentView, navigatedPath, selectedFiles,
       filterString, showHiddenFiles, settingsPending, files, isLoading, open,
       promise, pendingLookups, closeLog, callbackLog, unhandled, lastNavigated,
       createVars, builderVars >>

sessionVars == << open, promise, pendingLookups, closeLog, callbackLog, unhandled >>

(***************************************************************************)
(* Derived state of the component.                                         *)
(***************************************************************************)
\* the getter with the persisted path ahead of the caller's start path
currentPathStoredFirst ==
    IF currentView = "files"
    THEN OrElse(navigatedPath, OrElse(savedPath, props.path))
    ELSE RootPath

\* computed currentPath, get
currentPath ==
    IF currentView = "files"
    THEN OrElse(navigatedPath, OrElse(props.path, savedPath))
    ELSE RootPath

\* one allow-list pattern against a mime type: the same type, or the same
\* first part when the pattern ends in /*
mimeMatches(pattern, mime) ==
    /\ pattern[1] = mime[1]
    /\ pattern[2] = "*" \/ pattern[2] = mime[2]

\* useMimeFilter(...).isSupportedMimeType
isSupportedMimeType(allowed, mime) ==
    \E i \in 1..Len(allowed) : mimeMatches(allowed[i], mime)

\* the list without element i
RemoveAt(list, i) == SubSeq(list, 1, i - 1) \o SubSeq(list, i + 1, Len(list))

isHidden(file) == startsWith(file.basename, <<".">>)

\* a removal loop that splices the list it walks: the entry after a removed
\* one is skipped
RECURSIVE spliceHidden(_, _)
spliceHidden(list, i) ==
    IF i > Len(list) THEN list
    ELSE IF isHidden(list[i]) THEN spliceHidden(RemoveAt(list, i), i + 1)
    ELSE spliceHidden(list, i + 1)

hideHiddenSplicing(list) == spliceHidden(list, 1)

\* filtered.filter((file) => !file.basename.startsWith('.'))
hideHidden(list) ==
    LET keep(file) == ~isHidden(file) IN SelectSeq(list, keep)

\* the mime stage with folders not exempted
filterByMimeNoFolders(list, allowed) ==
    LET keep(file) == ~Falsy(file.mime) /\ isSupportedMimeType(allowed, file.mime)
    IN SelectSeq(list, keep)

\* filtered.filter(file => file.type === 'folder' || (file.mime && isSupportedMimeType(file.mime)))
filterByMime(list, allowed) ==
    LET keep(file) ==
            \/ file.type = "folder"
            \/ ~Falsy(file.mime) /\ isSupportedMimeType(allowed, file.mime)
    IN SelectSeq(list, keep)

\* filtered.filter((file) => file.basename.toLowerCase().includes(filterString.value.toLowerCase()))
filterByName(list, query) ==
    LET keep(file) == includes(toLowerCase(file.basename), toLowerCase(query))
    IN SelectSeq(list, keep)

\* filtered.filter((f) => props.filterFn(f))
filterByFn(list, fn) ==
    LET keep(file) == callFilterFn(fn, file) IN SelectSeq(list, keep)

\* the body of computed filteredFiles, over any listing and criteria
applyFilters(list, showHidden, allowed, query, fn) ==
    LET s1 == IF ~showHidden THEN hideHidden(list) ELSE list
        s2 == IF Len(allowed) > 0 THEN filterByMime(s1, allowed) ELSE s1
        s3 == IF ~Falsy(query) THEN filterByName(s2, query) ELSE s2
        s4 == IF fn # "undefined" THEN filterByFn(s3, fn) ELSE s3
    IN s4

\* a list that hides hidden entries whatever the setting is
filteredFilesAlwaysHiding ==
    applyFilters(files, FALSE, props.mimetypeFilter, filterString, props.filterFn)

\* computed filteredFiles
filteredFiles ==
    applyFilters(files, showHiddenFiles, props.mimetypeFilter, filterString, props.filterFn)

Range(seq) == {seq[i] : i \in 1..Len(seq)}

(***************************************************************************)
(* The session: FilePicker.pick() and the close events of the dialog.      *)
(***************************************************************************)
Pending == [state |-> "pending", value |-> << >>, error |-> ""]
Resolved(v) == [state |-> "resolved", value |-> v, error |-> ""]
Rejected(e) == [state |-> "rejected", value |-> << >>, error |-> e]

\* a promise settles once: resolve and reject of a settled promise do nothing
settleAlways(p, outcome) == outcome

settle(p, outcome) == IF p.state = "pending" THEN outcome ELSE p

\* the payload of a 'close' event: emit('close') carries nothing,
\* emit('close', nodes) carries the nodes
NoNodes == [hasNodes |-> FALSE, nodes |-> << >>]
WithNodes(nodes) == [hasNodes |-> TRUE, nodes |-> nodes]

paths(nodes) == [i \in 1..Len(nodes) |-> nodes[i].path]

\* the callback resolving with names instead of paths
pickOutcomeBasenames(multiSelect, payload) ==
    IF ~payload.hasNodes \/ Len(payload.nodes) = 0
    THEN Rejected("FilePickerClosed")
    ELSE IF multiSelect
         THEN Resolved([i \in 1..Len(payload.nodes) |-> payload.nodes[i].basename])
         ELSE Resolved(OrElse(payload.nodes[1].basename, RootPath))

\* the callback reading nodes.length of a close event that carries nothing:
\* it throws and the promise is left as it is
pickOutcomeUnchecked(multiSelect, payload) ==
    IF ~payload.hasNodes
    THEN Pending
    ELSE IF Len(payload.nodes) = 0
         THEN Rejected("FilePickerClosed")
         ELSE IF multiSelect
              THEN Resolved(paths(payload.nodes))
              ELSE Resolved(OrElse(payload.nodes[1].path, RootPath))

\* the callback without the nodes.length === 0 test
pickOutcomeNoLengthTest(multiSelect, payload) ==
    IF ~payload.hasNodes
    THEN Rejected("FilePickerClosed")
    ELSE IF multiSelect
         THEN Resolved(paths(payload.nodes))
         ELSE Resolved(IF Len(payload.nodes) = 0 THEN RootPath
                       ELSE OrElse(payload.nodes[1].path, RootPath))

\* the callback pick() hands to spawnDialog
pickOutcome(multiSelect, payload) ==
    IF ~payload.hasNodes \/ Len(payload.nodes) = 0
    THEN Rejected("FilePickerClosed")
    ELSE IF multiSelect
         THEN Resolved(paths(payload.nodes))
         ELSE Resolved(OrElse(payload.nodes[1].path, RootPath))

\* the dialog is taken down: the state of the component (view, path,
\* selection, filter text, listing) is destroyed with it; what outlives it is
\* the configuration pick() holds and the session storage
destroy ==
    /\ open' = FALSE
    /\ currentView' = "files"
    /\ navigatedPath' = Undefined
    /\ savedPath' = RootPath
    /\ selectedFiles' = << >>
    /\ filterString' = << >>
    /\ showHiddenFiles' = FALSE
    /\ settingsPending' = FALSE
    /\ files' = << >>
    /\ isLoading' = FALSE
    /\ lastNavigated' = RootPath
    /\ UNCHANGED << props, storage >>

\* spawnDialog's close handler: the event reaches pick()'s callback and the
\* dialog is taken down
onClose(payload) ==
    /\ closeLog' = Append(closeLog, payload)
    /\ promise' = settle(promise, pickOutcome(props.multiselect, payload))
    /\ destroy

(***************************************************************************)
(* The fields of a builder.                                                *)
(***************************************************************************)
\* this.buttons: a static list of buttons, or a factory function
StaticButtons(list) == [kind |-> "list", list |-> list, factory |-> "none"]
ButtonFactory(f) == [kind |-> "factory", list |-> << >>, factory |-> f]

\* new FilePickerBuilder(title): the initial values of the fields
NewBuilder ==
    [ multiSelect |-> FALSE,
      mimeTypeFilter |-> << >>,
      directoriesAllowed |-> FALSE,
      buttons |-> StaticButtons(<< >>),
      path |-> Undefined,
      filter |-> "undefined",
      container |-> Undefined ]

(***************************************************************************)
(* The initial state: the component is set up and mounted, the listing and *)
(* the settings are being fetched, pick() has returned its promise.        *)
(***************************************************************************)
Init ==
    /\ props \in Props
    /\ storage \in StoredPaths
    /\ savedPath = OrElse(storage, RootPath)
    /\ currentView = "files"
    /\ navigatedPath = Undefined
    /\ selectedFiles = << >>
    /\ filterString = << >>
    /\ showHiddenFiles = FALSE
    /\ settingsPending = TRUE
    /\ files = << >>
    /\ isLoading = TRUE
    /\ open = TRUE
    /\ promise = Pending
    /\ pendingLookups = << >>
    /\ closeLog = << >>
    /\ callbackLog = << >>
    /\ unhandled = FALSE
    /\ lastNavigated = OrElse(props.path, savedPath)
    /\ created = << >>
    /\ pendingCreates = << >>
    /\ notifications = << >>
    /\ errorsShown = 0
    /\ builder = NewBuilder
    /\ picker = << >>
    /\ dialog = << >>
    /\ warnings = 0
    /\ calls = 0

(***************************************************************************)
(* Steps of the component.                                                 *)
(***************************************************************************)
\* the watcher of useDAVFiles: a change of the view or of the path starts a fetch
watchReload ==
    isLoading' = IF << currentView', currentPath' >> # << currentView, currentPath >>
                 THEN TRUE ELSE isLoading

\* the setter that leaves the selection alone
setCurrentPathKeepSelection(path) ==
    /\ storage' = IF props.path = Undefined THEN path ELSE storage
    /\ navigatedPath' = path
    /\ selectedFiles' = selectedFiles

\* computed currentPath, set
setCurrentPath(path) ==
    /\ storage' = IF props.path = Undefined THEN path ELSE storage
    /\ navigatedPath' = path
    /\ selectedFiles' = << >>

\* the directories the breadcrumbs of a path lead to
breadcrumbs(path) ==
    {d \in Directories : d = RootPath \/ d = path \/ startsWith(path, d \o <<"/">>)}

\* FilePickerBreadcrumbs, update:path
NavigateBreadcrumb(path) ==
    /\ open
    /\ currentView = "files"
    /\ path \in breadcrumbs(currentPath)
    /\ setCurrentPath(path)
    /\ lastNavigated' = path
    /\ currentView' = currentView
    /\ UNCHANGED << props, savedPath, filterString, showHiddenFiles, settingsPending,
                    files, sessionVars >>
    /\ UNCHANGED << createVars, builderVars >>
    /\ watchReload

\* FileList, update:path: a folder of the list is opened, from any view
NavigateFileList(folder) ==
    /\ open
    /\ ~isLoading
    /\ folder \in Range(filteredFiles)
    /\ folder.type = "folder"
    /\ setCurrentPath(folder.path)
    /\ lastNavigated' = folder.path
    /\ currentView' = "files"
    /\ UNCHANGED << props, savedPath, filterString, showHiddenFiles, settingsPending,
                    files, sessionVars >>
    /\ UNCHANGED << createVars, builderVars >>
    /\ watchReload

\* a view switch that forgets the navigated path
switchViewForgetting(view) ==
    /\ currentView' = view
    /\ navigatedPath' = Undefined

\* FilePickerNavigation, update:currentView
switchView(view) ==
    /\ currentView' = view
    /\ navigatedPath' = navigatedPath

SetCurrentView(view) ==
    /\ open
    /\ view # currentView
    /\ switchView(view)
    /\ UNCHANGED << props, storage, savedPath, selectedFiles, filterString,
                    showHiddenFiles, settingsPending, files, sessionVars, lastNavigated >>
    /\ UNCHANGED << createVars, builderVars >>
    /\ watchReload

\* a filter text that empties the selection when it is typed
SetFilterTextDeselecting(text) ==
    /\ open
    /\ text # filterString
    /\ filterString' = text
    /\ selectedFiles' = << >>
    /\ UNCHANGED << props, storage, savedPath, currentView, navigatedPath,
                    showHiddenFiles, settingsPending, files, isLoading, sessionVars,
                    lastNavigated >>
    /\ UNCHANGED << createVars, builderVars >>

\* FilePickerNavigation, update:filterString
SetFilterText(text) ==
    /\ open
    /\ text # filterString
    /\ filterString' = text
    /\ UNCHANGED << props, storage, savedPath, currentView, navigatedPath, selectedFiles,
                    showHiddenFiles, settingsPending, files, isLoading, sessionVars,
                    lastNavigated >>
    /\ UNCHANGED << createVars, builderVars >>

\* a selection that adds in single-select mode too
toggledAlwaysAdding(selected, multiselect, file) ==
    IF file \in Range(selected)
    THEN LET keep(f) == f.path # file.path IN SelectSeq(selected, keep)
    ELSE Append(selected, file)

\* FileList, update:selectedFiles: an entry is added or removed; in
\* single-select mode an added entry replaces the selection
toggled(selected, multiselect, file) ==
    IF file \in Range(selected)
    THEN LET keep(f) == f.path # file.path IN SelectSeq(selected, keep)
    ELSE IF multiselect THEN Append(selected, file) ELSE << file >>

ToggleSelect(file) ==
    /\ open
    /\ ~isLoading
    /\ file \in Range(filteredFiles)
    /\ file \in Range(selectedFiles) \/ ~props.multiselect \/ Len(selectedFiles) < MaxSelected
    /\ selectedFiles' = toggled(selectedFiles, props.multiselect, file)
    /\ UNCHANGED << props, storage, savedPath, currentView, navigatedPath, filterString,
                    showHiddenFiles, settingsPending, files, isLoading, sessionVars,
                    lastNavigated >>
    /\ UNCHANGED << createVars, builderVars >>

\* useDAVFiles: the fetch ends with the listing of the view and path now shown
LoadFilesDone ==
    /\ open
    /\ isLoading
    /\ files' = RemoteFiles(currentView, currentPath)
    /\ isLoading' = FALSE
    /\ UNCHANGED << props, storage, savedPath, currentView, navigatedPath, selectedFiles,
                    filterString, showHiddenFiles, settingsPending, sessionVars,
                    lastNavigated >>
    /\ UNCHANGED << createVars, builderVars >>

\* useFilesSettings: the settings request is answered
SettingsLoaded(showHidden) ==
    /\ open
    /\ settingsPending
    /\ settingsPending' = FALSE
    /\ showHiddenFiles' = showHidden
    /\ UNCHANGED << props, storage, savedPath, currentView, navigatedPath, selectedFiles,
                    filterString, files, isLoading, sessionVars, lastNavigated >>
    /\ UNCHANGED << createVars, builderVars >>

(***************************************************************************)
(* Steps of the buttons and of the dialog.                                 *)
(***************************************************************************)
uiVars ==
    << props, storage, savedPath, currentView, navigatedPath, selectedFiles, filterString,
       showHiddenFiles, settingsPending, files, isLoading, lastNavigated >>

\* button.callback(nodes); emit('close', nodes)
deliver(nodes) ==
    /\ callbackLog' = Append(callbackLog, nodes)
    /\ onClose(WithNodes(nodes))

\* the wrapped callback of a dialog button, up to its first suspension
ClickButton ==
    /\ open
    /\ IF Len(selectedFiles) = 0 /\ props.allowPickDirectory
       THEN /\ Len(pendingLookups) < MaxPending
            /\ pendingLookups' = Append(pendingLookups, currentPath)
            /\ UNCHANGED << uiVars, open, promise, closeLog, callbackLog >>
       ELSE /\ deliver(selectedFiles)
            /\ UNCHANGED pendingLookups
    /\ UNCHANGED unhandled
    /\ UNCHANGED << createVars, builderVars >>

\* the wrapped callback resumes with the directory's entry
GetFileDone(i) ==
    /\ i \in 1..Len(pendingLookups)
    /\ pendingLookups' = RemoveAt(pendingLookups, i)
    /\ deliver(<< DirectoryNode(pendingLookups[i]) >>)
    /\ UNCHANGED unhandled
    /\ UNCHANGED << createVars, builderVars >>

\* getFile rejects: the wrapped callback throws at its await
GetFileFail(i) ==
    /\ i \in 1..Len(pendingLookups)
    /\ pendingLookups' = RemoveAt(pendingLookups, i)
    /\ unhandled' = TRUE
    /\ UNCHANGED << uiVars, open, promise, closeLog, callbackLog >>
    /\ UNCHANGED << createVars, builderVars >>

\* handleClose(false): the dialog reports that it is closed
HandleClose ==
    /\ Len(closeLog) < MaxCloseEvents
    /\ onClose(NoNodes)
    /\ UNCHANGED << pendingLookups, callbackLog, unhandled >>
    /\ UNCHANGED << createVars, builderVars >>

(***************************************************************************)
(* Creating a folder from the breadcrumb menu.                             *)
(***************************************************************************)
\* the names typed for a new folder: one that an entry of '/' has, one that
\* no entry has
CreateNames == { <<"B">>, <<"n">> }

\* the store has an entry of that name in the directory
storeHas(dir, name) ==
    \E f \in Range(RemoteFiles("files", dir)) : f.basename = name

\* what the event carries when the listing has no entry of the name
NoEntry ==
    [path |-> Undefined, basename |-> Undefined, type |-> "undefined", mime |-> NoMime]

\* list.filter((file) => file.basename === name)[0]
firstMatch(list, name) ==
    LET matches(f) == f.basename = name
        found == SelectSeq(list, matches)
    IN  IF found = << >> THEN NoEntry ELSE found[1]

\* onCreateFolder up to its first await: the menu is shown in the Files view
\* of a picker that allows directories; the target is joined from the path
\* shown when the request is made
CreateFolder(name) ==
    /\ open
    /\ currentView = "files"
    /\ props.allowPickDirectory
    /\ Len(pendingCreates) + Len(notifications) + errorsShown < MaxCreates
    /\ pendingCreates' =
            Append(pendingCreates,
                   [name |-> name, dir |-> currentPath,
                    target |-> join(currentPath, name), awaiting |-> "createDirectory"])
    /\ UNCHANGED << uiVars, sessionVars, created, notifications, errorsShown, builderVars >>

\* client.createDirectory resolves: the store has the folder, loadFiles() is called
CreateDirectoryDone(i) ==
    /\ open
    /\ i \in 1..Len(pendingCreates)
    /\ pendingCreates[i].awaiting = "createDirectory"
    /\ ~storeHas(pendingCreates[i].dir, pendingCreates[i].name)
    /\ created' = Append(created, Node(pendingCreates[i].dir, pendingCreates[i].name,
                                       "folder", DirMime))
    /\ pendingCreates' = [pendingCreates EXCEPT ![i].awaiting = "loadFiles"]
    /\ isLoading' = TRUE
    /\ UNCHANGED << props, storage, savedPath, currentView, navigatedPath, selectedFiles,
                    filterString, showHiddenFiles, settingsPending, files, lastNavigated,
                    sessionVars, notifications, errorsShown, builderVars >>

\* a catch block that shows nothing
onCreateFolderCatchSilent ==
    /\ errorsShown' = errorsShown
    /\ notifications' = notifications

\* the catch block of onCreateFolder: console.warn and showError
onCreateFolderCatch ==
    /\ errorsShown' = errorsShown + 1
    /\ notifications' = notifications

\* client.createDirectory rejects
CreateDirectoryFail(i) ==
    /\ open
    /\ i \in 1..Len(pendingCreates)
    /\ pendingCreates[i].awaiting = "createDirectory"
    /\ pendingCreates' = RemoveAt(pendingCreates, i)
    /\ onCreateFolderCatch
    /\ UNCHANGED << uiVars, sessionVars, created, builderVars >>

\* loadFiles() resolves with the listing of the view and path now shown, and
\* the event is emitted with the first entry of the name in it
CreateReloaded(i) ==
    /\ open
    /\ i \in 1..Len(pendingCreates)
    /\ pendingCreates[i].awaiting = "loadFiles"
    /\ files' = RemoteFiles(currentView, currentPath)
    /\ isLoading' = FALSE
    /\ notifications' =
            Append(notifications,
                   [node |-> firstMatch(files', pendingCreates[i].name),
                    name |-> pendingCreates[i].name,
                    target |-> pendingCreates[i].target])
    /\ pendingCreates' = RemoveAt(pendingCreates, i)
    /\ UNCHANGED << props, storage, savedPath, currentView, navigatedPath, selectedFiles,
                    filterString, showHiddenFiles, settingsPending, lastNavigated,
                    sessionVars, created, errorsShown, builderVars >>

Next ==
    \/ \E path \in Directories : NavigateBreadcrumb(path)
    \/ \E folder \in Range(files) : NavigateFileList(folder)
    \/ \E view \in Views : SetCurrentView(view)
    \/ \E text \in FilterTexts : SetFilterText(text)
    \/ \E file \in Range(files) : ToggleSelect(file)
    \/ LoadFilesDone
    \/ \E showHidden \in BOOLEAN : SettingsLoaded(showHidden)
    \/ ClickButton
    \/ \E i \in 1..MaxPending : GetFileDone(i)
    \/ \E i \in 1..MaxPending : GetFileFail(i)
    \/ HandleClose

Spec == Init /\ [][Next]_vars

\* a single-select session whose breadcrumb menu creates folders, followed
\* while the dialog is open
InitCreate ==
    /\ Init
    /\ props.allowPickDirectory
    /\ ~props.multiselect
    /\ storage = Undefined
    /\ props.mimetypeFilter = << >>
    /\ props.filterFn = "undefined"

NextCreate ==
    \/ \E path \in Directories : NavigateBreadcrumb(path)
    \/ \E folder \in Range(files) : NavigateFileList(folder)
    \/ \E view \in Views : SetCurrentView(view)
    \/ \E text \in FilterTexts : SetFilterText(text)
    \/ \E file \in Range(files) : ToggleSelect(file)
    \/ LoadFilesDone
    \/ \E showHidden \in BOOLEAN : SettingsLoaded(showHidden)
    \/ \E name \in CreateNames : CreateFolder(name)
    \/ \E i \in 1..MaxCreates : CreateDirectoryDone(i)
    \/ \E i \in 1..MaxCreates : CreateDirectoryFail(i)
    \/ \E i \in 1..MaxCreates : CreateReloaded(i)

SpecCreate == InitCreate /\ [][NextCreate]_vars

(***************************************************************************)
(* FilePickerBuilder: the calls that configure a picker, build() and the   *)
(* props pick() spawns the dialog with.  One built picker and its first    *)
(* pick() are followed.                                                    *)
(***************************************************************************)
\* the values the calls are made with
Containers == { <<"#", "a">> }
Buttons == {"ok", "cancel"}
Factories == {"custom"}
Types == {"Choose", "Move"}
MimeTypes == { TextHtml }

\* a call on the builder or on the picker: it is counted, and it touches no
\* dialog
counted ==
    /\ calls < MaxCalls
    /\ calls' = calls + 1
    /\ UNCHANGED << uiVars, sessionVars, createVars >>

\* the picker holds the very arrays the builder held at build(): a push on
\* the builder's array is seen in the picker, until the builder replaces it
pushedButton(button) ==
    IF picker # << >> /\ picker[1].sharesButtons
    THEN << [picker[1] EXCEPT !.buttons = StaticButtons(Append(@.list, button))] >>
    ELSE picker

pushedMime(filter) ==
    IF picker # << >> /\ picker[1].sharesMimes
    THEN << [picker[1] EXCEPT !.mimeTypeFilter = Append(@, filter)] >>
    ELSE picker

unsharedButtons ==
    IF picker # << >> THEN << [picker[1] EXCEPT !.sharesButtons = FALSE] >> ELSE picker

unsharedMimes ==
    IF picker # << >> THEN << [picker[1] EXCEPT !.sharesMimes = FALSE] >> ELSE picker

SetContainer(container) ==
    /\ counted
    /\ builder' = [builder EXCEPT !.container = container]
    /\ UNCHANGED << picker, dialog, warnings >>

SetMultiSelect(ms) ==
    /\ counted
    /\ builder' = [builder EXCEPT !.multiSelect = ms]
    /\ UNCHANGED << picker, dialog, warnings >>

AddMimeTypeFilter(filter) ==
    /\ counted
    /\ builder' = [builder EXCEPT !.mimeTypeFilter = Append(@, filter)]
    /\ picker' = pushedMime(filter)
    /\ UNCHANGED << dialog, warnings >>

SetMimeTypeFilter(filter) ==
    /\ counted
    /\ builder' = [builder EXCEPT !.mimeTypeFilter = filter]
    /\ picker' = unsharedMimes
    /\ UNCHANGED << dialog, warnings >>

\* addButton: a factory is replaced, with a warning, by a new list
AddButton(button) ==
    /\ counted
    /\ IF builder.buttons.kind = "factory"
       THEN /\ warnings' = warnings + 1
            /\ builder' = [builder EXCEPT !.buttons = StaticButtons(<< button >>)]
            /\ picker' = unsharedButtons
       ELSE /\ warnings' = warnings
            /\ builder' = [builder EXCEPT !.buttons = StaticButtons(Append(@.list, button))]
            /\ picker' = pushedButton(button)
    /\ UNCHANGED dialog

SetButtonFactory(factory) ==
    /\ counted
    /\ builder' = [builder EXCEPT !.buttons = ButtonFactory(factory)]
    /\ picker' = unsharedButtons
    /\ UNCHANGED << dialog, warnings >>

\* setType: the buttons become the factory of the preset
SetType(type) ==
    /\ counted
    /\ builder' = [builder EXCEPT !.buttons = ButtonFactory(type)]
    /\ picker' = unsharedButtons
    /\ UNCHANGED << dialog, warnings >>

AllowDirectories(allow) ==
    /\ counted
    /\ builder' = [builder EXCEPT !.directoriesAllowed = allow]
    /\ UNCHANGED << picker, dialog, warnings >>

StartAt(path) ==
    /\ counted
    /\ builder' = [builder EXCEPT !.path = path]
    /\ UNCHANGED << picker, dialog, warnings >>

SetFilter(filter) ==
    /\ counted
    /\ builder' = [builder EXCEPT !.filter = filter]
    /\ UNCHANGED << picker, dialog, warnings >>

\* new FilePicker(title, multiSelect, mimeTypeFilter, directoriesAllowed,
\* buttons, path, filter): build() passes no eighth argument, the
\* constructor's container is undefined
built ==
    [ multiSelect |-> builder.multiSelect,
      mimeTypeFilter |-> builder.mimeTypeFilter,
      directoriesAllowed |-> builder.directoriesAllowed,
      buttons |-> builder.buttons,
      path |-> builder.path,
      filter |-> builder.filter,
      container |-> Undefined,
      sharesButtons |-> builder.buttons.kind = "list",
      sharesMimes |-> TRUE ]

Build ==
    /\ counted
    /\ picker = << >>
    /\ picker' = << built >>
    /\ UNCHANGED << builder, dialog, warnings >>

\* the props pick() hands to spawnDialog
spawnProps(p) ==
    [ allowPickDirectory |-> p.directoriesAllowed,
      buttons |-> p.buttons,
      container |-> p.container,
      path |-> p.path,
      mimetypeFilter |-> p.mimeTypeFilter,
      multiselect |-> p.multiSelect,
      filterFn |-> p.filter ]

Pick ==
    /\ counted
    /\ picker # << >>
    /\ dialog = << >>
    /\ dialog' = << spawnProps(picker[1]) >>
    /\ UNCHANGED << builder, picker, warnings >>

\* a builder is made; no dialog is mounted yet
InitBuilder ==
    /\ props = [multiselect |-> FALSE, allowPickDirectory |-> FALSE, path |-> Undefined,
                mimetypeFilter |-> << >>, filterFn |-> "undefined"]
    /\ storage = Undefined
    /\ savedPath = RootPath
    /\ currentView = "files"
    /\ navigatedPath = Undefined
    /\ selectedFiles = << >>
    /\ filterString = << >>
    /\ showHiddenFiles = FALSE
    /\ settingsPending = FALSE
    /\ files = << >>
    /\ isLoading = FALSE
    /\ open = FALSE
    /\ promise = Pending
    /\ pendingLookups = << >>
    /\ closeLog = << >>
    /\ callbackLog = << >>
    /\ unhandled = FALSE
    /\ lastNavigated = RootPath
    /\ created = << >>
    /\ pendingCreates = << >>
    /\ notifications = << >>
    /\ errorsShown = 0
    /\ builder = NewBuilder
    /\ picker = << >>
    /\ dialog = << >>
    /\ warnings = 0
    /\ calls = 0

NextBuilder ==
    \/ \E container \in Containers : SetContainer(container)
    \/ \E ms \in BOOLEAN : SetMultiSelect(ms)
    \/ \E filter \in MimeTypes : AddMimeTypeFilter(filter)
    \/ \E filter \in MimeFilters : SetMimeTypeFilter(filter)
    \/ \E button \in Buttons : AddButton(button)
    \/ \E factory \in Factories : SetButtonFactory(factory)
    \/ \E type \in Types : SetType(type)
    \/ \E allow \in BOOLEAN : AllowDirectories(allow)
    \/ \E path \in StartPaths \ {Undefined} : StartAt(path)
    \/ \E filter \in FilterFns \ {"undefined"} : SetFilter(filter)
    \/ Build
    \/ Pick

SpecBuilder == InitBuilder /\ [][NextBuilder]_vars

(***************************************************************************)
(* The outcome of pick().                                                  *)
(***************************************************************************)
\* the first close event of the session carries no nodes: a dismissal
dismissedFirst == Len(closeLog) > 0 /\ ~closeLog[1].hasNodes

\* the first close event of the session carries a non-empty node list
closedWithNodes ==
    Len(closeLog) > 0 /\ closeLog[1].hasNodes /\ Len(closeLog[1].nodes) > 0

\* C1: in every session whose first close event is a dismissal (a close event
\* without nodes, no button action having closed the session before it), the
\* promise of pick() is rejected with FilePickerClosed, and it stays rejected
\* whatever close event follows: it never resolves.
C1_DismissedRejects ==
    dismissedFirst => promise = Rejected("FilePickerClosed")

\* a dismissal came first and a button action with nodes came after it
C1_Witness ==
    /\ dismissedFirst
    /\ Len(closeLog) >= 2
    /\ closeLog[2].hasNodes
    /\ Len(closeLog[2].nodes) > 0
    /\ promise.state = "rejected"

\* C2: when the session closes with a non-empty node list, pick() resolves, in
\* multi-select mode to the list of the paths of exactly those nodes in the
\* same order, in single-select mode to one path, that of the first node.
C2_ClosedWithNodesResolves ==
    closedWithNodes =>
        LET nodes == closeLog[1].nodes IN
        /\ promise.state = "resolved"
        /\ IF props.multiselect
           THEN /\ Len(promise.value) = Len(nodes)
                /\ \A i \in 1..Len(nodes) : promise.value[i] = nodes[i].path
           ELSE promise.value = nodes[1].path

\* a multi-select session closed with two nodes, picked against the order of
\* the listing
C2_Witness ==
    /\ closedWithNodes
    /\ props.multiselect
    /\ Len(closeLog[1].nodes) = 2
    /\ closeLog[1].nodes[1].path = join(DocsPath, <<"b">>)
    /\ closeLog[1].nodes[2].path = join(DocsPath, <<"a">>)
    /\ promise.state = "resolved"

\* C3: when directories are allowed and a button is clicked while the selection
\* is empty, the click ends with the directory navigated to at the click
\* handed to the button callback and to the session result: pick() resolves to
\* its path (single-select) or to the one-element list holding it
\* (multi-select).
C3_ImplicitDirectoryResolves ==
    [][\A i \in 1..Len(pendingLookups) :
          pendingLookups' = RemoveAt(pendingLookups, i) =>
              LET dir == pendingLookups[i] IN
              /\ callbackLog' = Append(callbackLog, << DirectoryNode(dir) >>)
              /\ promise' = Resolved(IF props.multiselect THEN << dir >> ELSE dir)]_vars

\* C4 as stated: pick() rejects only in sessions where the dialog was dismissed
\* before any button action closed it; a button action that fires first never
\* rejects, whatever the selection and the directories-allowed flag.
C4_RejectsOnlyWhenDismissed ==
    promise.state = "rejected" => dismissedFirst

\* C4: pick() rejects, with FilePickerClosed, exactly in the sessions whose first
\* close event carries no node: a dismissal, or a button action fired with an
\* empty selection while directories are not allowed. A button action whose
\* close event comes first and carries nodes resolves pick() and never rejects.
C4_RejectsIffNoNodes ==
    /\ promise.state = "rejected" <=> Len(closeLog) > 0 /\ ~closedWithNodes
    /\ promise.state = "rejected" => promise.error = "FilePickerClosed"
    /\ closedWithNodes => promise.state = "resolved"
    /\ \A i \in 1..Len(closeLog) :
          closeLog[i].hasNodes /\ Len(closeLog[i].nodes) = 0 => ~props.allowPickDirectory

\* a button action with nothing selected closed the session first
C4_Witness ==
    /\ Len(closeLog) > 0
    /\ closeLog[1].hasNodes
    /\ Len(closeLog[1].nodes) = 0
    /\ Len(callbackLog) = 1
    /\ promise = Rejected("FilePickerClosed")

\* C5: the promise of a session is settled at most once: the first close event
\* settles it, and a close event that arrives later, a button action's or a
\* dismissal's, neither resolves nor rejects it again nor changes its result.
C5_SettledOnce ==
    [][/\ promise.state # "pending" => promise' = promise
       /\ Len(closeLog') > 0 => promise'.state # "pending"]_vars

\* a confirming button action closed the session and a dismissal followed
C5_Witness ==
    /\ closedWithNodes
    /\ Len(closeLog) >= 2
    /\ ~closeLog[2].hasNodes
    /\ promise.state = "resolved"

(***************************************************************************)
(* Navigation and selection.                                               *)
(***************************************************************************)
\* a step that assigns the current path
navigates ==
    \/ \E path \in Directories : NavigateBreadcrumb(path)
    \/ \E folder \in Range(files) : NavigateFileList(folder)

\* C6: the selection is empty immediately after every navigate (every
\* assignment of the current path), whatever was selected before, and a
\* confirm hands over exactly the selection of that moment: so a confirm
\* returns only entries selected after the most recent navigation.
C6_NavigateClearsSelection ==
    [][/\ navigates => selectedFiles' = << >>
       /\ ClickButton /\ Len(selectedFiles) > 0 =>
              /\ callbackLog' = Append(callbackLog, selectedFiles)
              /\ closeLog' = Append(closeLog, WithNodes(selectedFiles))]_vars

\* the root was left for the folder Ab, whose listing is still being fetched
C6_Witness ==
    /\ open
    /\ navigatedPath = DocsPath
    /\ isLoading
    /\ files = DirectoryListing(RootPath)
    /\ selectedFiles = << >>

\* C7: whenever the active view is Favorites or Recent the current path is
\* '/', and in the Files view, also after switching back to it, the current
\* path is the path last navigated to in this session, or the initial path if
\* nothing was navigated to.
C7_ViewSwitchKeepsPath ==
    open =>
        /\ currentView \in {"favorites", "recent"} => currentPath = RootPath
        /\ currentView = "files" => currentPath = lastNavigated

\* the Files view is shown again after Recent, whose listing is still on
\* display, and the folder navigated to before is the current path
C7_Witness ==
    /\ open
    /\ currentView = "files"
    /\ isLoading
    /\ files = RemoteFiles("recent", RootPath)
    /\ props.path = Undefined
    /\ lastNavigated = DocsPath
    /\ currentPath = DocsPath

\* C8: in a single-select session the selection holds at most one entry after
\* every step (toggleSelect, navigate, view switch), and an entry newly
\* selected is then the whole selection: it replaces the previous one.
C8_SingleSelect ==
    [][~props.multiselect =>
          /\ Len(selectedFiles') <= 1
          /\ \A file \in Range(selectedFiles') \ Range(selectedFiles) :
                selectedFiles' = << file >>]_vars

\* a single-select session with the second entry of the folder Ab selected
C8_Witness ==
    /\ open
    /\ ~props.multiselect
    /\ files = DirectoryListing(DocsPath)
    /\ selectedFiles = << files[2] >>

(***************************************************************************)
(* The filters.                                                            *)
(***************************************************************************)
\* the name does not start with a dot
notHidden(file) == ~(Len(file.basename) > 0 /\ file.basename[1] = ".")

\* the name holds the query, letter case aside
nameHasQuery(file) ==
    \E i \in 0..(Len(file.basename) - Len(filterString)) :
        \A k \in 1..Len(filterString) :
            LowerChar(file.basename[i + k]) = LowerChar(filterString[k])

\* the mime type is one of the allow-list
mimeAllowed(file) ==
    /\ file.mime # NoMime
    /\ \E pattern \in Range(props.mimetypeFilter) : mimeMatches(pattern, file.mime)

\* an entry passes the four filters together
passesAll(file) ==
    /\ showHiddenFiles \/ notHidden(file)
    /\ Len(props.mimetypeFilter) > 0 => file.type = "folder" \/ mimeAllowed(file)
    /\ Len(filterString) > 0 => nameHasQuery(file)
    /\ props.filterFn # "undefined" => callFilterFn(props.filterFn, file)

\* C9: the visible entry list is exactly the fetched listing, in its order,
\* restricted to the entries that pass all four filters together: not hidden
\* unless showHidden; a folder, or a file whose mime type matches the
\* allow-list, when the allow-list is non-empty; a name holding the query,
\* letter case aside, when the query is non-empty; accepted by the caller
\* predicate when there is one. A folder is never dropped by the mime filter,
\* and a hidden folder is dropped by the hidden rule.
C9_VisibleEntries ==
    /\ filteredFiles = SelectSeq(files, passesAll)
    /\ \A i \in 1..Len(files) :
          files[i].type = "folder" =>
              /\ ~showHiddenFiles /\ ~notHidden(files[i]) => files[i] \notin Range(filteredFiles)
              /\ /\ showHiddenFiles \/ notHidden(files[i])
                 /\ Len(filterString) > 0 => nameHasQuery(files[i])
                 /\ props.filterFn # "undefined" => callFilterFn(props.filterFn, files[i])
                 => files[i] \in Range(filteredFiles)

\* the root is listed with hidden entries off, a mime allow-list that no folder
\* matches and the query B: the hidden folder and the hidden file are dropped,
\* the folder Ab is kept, the image is kept
C9_Witness ==
    /\ open
    /\ files = DirectoryListing(RootPath)
    /\ ~showHiddenFiles
    /\ Len(props.mimetypeFilter) > 0
    /\ filterString = <<"B">>
    /\ props.filterFn = "undefined"
    /\ Len(filteredFiles) = 2
    /\ filteredFiles[1].type = "folder"
    /\ filteredFiles[2].basename = <<"B">>

\* C10: applying the filter pipeline to its own output gives the same list, for
\* every listing and all criteria: apply(apply(E, C), C) = apply(E, C).
C10_FilterIdempotent ==
    applyFilters(filteredFiles, showHiddenFiles, props.mimetypeFilter, filterString,
                 props.filterFn) = filteredFiles

\* the four filters are all active, and drop some entries and keep another
C10_Witness ==
    /\ open
    /\ ~showHiddenFiles
    /\ Len(props.mimetypeFilter) > 0
    /\ Len(filterString) > 0
    /\ props.filterFn # "undefined"
    /\ Len(filteredFiles) > 0
    /\ Len(filteredFiles) < Len(files)

(***************************************************************************)
(* The start path and the persisted path.                                  *)
(***************************************************************************)
\* C11: in the Files view the current path is the path navigated to in this
\* session if there is one, otherwise the start path the caller supplied if
\* there is one, otherwise the persisted last-visited path, or '/' when none
\* is stored: the persisted value is used only when the caller supplied no
\* start path and nothing was navigated to yet.
C11_PathPrecedence ==
    open /\ currentView = "files" =>
        currentPath =
            IF navigatedPath # Undefined THEN lastNavigated
            ELSE IF props.path # Undefined THEN props.path
            ELSE IF storage # Undefined THEN storage
            ELSE RootPath

\* a session that was given a start path while another path is persisted
\* shows the start path, and its listing
C11_Witness ==
    /\ open
    /\ currentView = "files"
    /\ navigatedPath = Undefined
    /\ props.path = DocsPath
    /\ storage = HiddenPath
    /\ currentPath = DocsPath
    /\ files = DirectoryListing(DocsPath)

\* C12: every navigate(path) writes path to the persisted last-visited path,
\* in every configuration of the session, so that a session opened afterwards
\* without a start path begins at the path navigated to last.
C12_NavigatePersists ==
    [][navigates => storage' = navigatedPath']_vars

(***************************************************************************)
(* Creating a folder.                                                      *)
(***************************************************************************)
\* a step in which a createFolder request that waits for the store ends
\* without the store having created anything: the creation failed
creationFails ==
    /\ created' = created
    /\ \E i \in 1..Len(pendingCreates) :
            /\ pendingCreates[i].awaiting = "createDirectory"
            /\ pendingCreates' = RemoveAt(pendingCreates, i)

\* C13: when the remote creation of the directory fails in createFolder, no
\* 'node created' notification is emitted, an error is shown to the user, the
\* listing is not fetched again, and view, path, selection and filter text
\* are unchanged.
C13_FailedCreateChangesNothing ==
    [][creationFails =>
            /\ notifications' = notifications
            /\ errorsShown' = errorsShown + 1
            /\ files' = files
            /\ isLoading' = isLoading
            /\ currentView' = currentView
            /\ currentPath' = currentPath
            /\ selectedFiles' = selectedFiles
            /\ filterString' = filterString]_vars

\* a creation has failed in a session that has an entry selected and a
\* filter text typed: the error is shown, selection and filter text are there
C13_Witness ==
    /\ errorsShown = 1
    /\ pendingCreates = << >>
    /\ created = << >>
    /\ notifications = << >>
    /\ selectedFiles # << >>
    /\ filterString # << >>
    /\ navigatedPath = DocsPath
    /\ ~isLoading

\* C19: after createFolder(name) succeeded in the store and the listing was
\* fetched again, a 'node created' notification is emitted only if the
\* refreshed listing has an entry whose basename is name; when there is no
\* such entry no notification fires.
C19_NotifiesOnlyListedEntry ==
    [][Len(notifications') > Len(notifications) =>
            LET sent == notifications'[Len(notifications')]
            IN  /\ \E f \in Range(files') : f.basename = sent.name
                /\ sent.node \in Range(files')
                /\ sent.node.basename = sent.name]_vars

\* C20: for every interleaving of a pending createFolder(name) with
\* navigation and view switches, a 'node created' notification that carries
\* an entry carries the one created at (path at request time)/name, never an
\* entry of another directory that has the same basename.
C20_NotifiesCreatedEntry ==
    \A i \in 1..Len(notifications) :
        notifications[i].node # NoEntry =>
            notifications[i].node.path = notifications[i].target

(***************************************************************************)
(* The builder.                                                            *)
(***************************************************************************)
\* C14: the mount container configured with setContainer(c) is the container
\* handed to the dialog that pick() of the picker returned by build() spawns,
\* whatever other calls are made on the builder and in whatever order.
C14_ContainerReachesDialog ==
    [][/\ (picker = << >> /\ picker' # << >>) => picker'[1].container = builder.container
       /\ (dialog = << >> /\ dialog' # << >>) => dialog'[1].container = picker[1].container]_vars

\* C15: for every sequence of addButton and setButtonFactory calls the button
\* specification of the built picker is the one of the last kind of call:
\* addButton after a factory leaves the list of the buttons added since,
\* setButtonFactory after addButton leaves the factory alone, and in both
\* directions the overwrite is logged as a warning.
C15_LastButtonCallWins ==
    [][/\ (builder.buttons.kind = "factory" /\ builder'.buttons.kind = "list") =>
            /\ Len(builder'.buttons.list) = 1
            /\ warnings' = warnings + 1
       /\ ( /\ builder.buttons.kind = "list"
            /\ builder.buttons.list # << >>
            /\ builder'.buttons.kind = "factory"
            /\ builder'.buttons.factory \in Factories ) =>
            /\ builder'.buttons.list = << >>
            /\ warnings' = warnings + 1
       /\ (picker = << >> /\ picker' # << >>) => picker'[1].buttons = builder.buttons]_vars

(***************************************************************************)
(* The hidden-files setting.                                               *)
(***************************************************************************)
\* an entry passes the mime filter, the query and the caller predicate
passesOtherFilters(file) ==
    /\ Len(props.mimetypeFilter) > 0 => file.type = "folder" \/ mimeAllowed(file)
    /\ Len(filterString) > 0 => nameHasQuery(file)
    /\ props.filterFn # "undefined" => callFilterFn(props.filterFn, file)

\* as long as the settings request is unanswered the setting is false and no
\* hidden entry is in the visible list
hiddenWhilePending ==
    settingsPending =>
        /\ ~showHiddenFiles
        /\ \A f \in Range(filteredFiles) : notHidden(f)

\* the step in which the settings response reaches a mounted dialog
settingsArrive == settingsPending /\ ~settingsPending' /\ open'

\* C16: the hidden-files setting is false from the start of the session until
\* the settings response arrives, and for ever if it never arrives, so hidden
\* entries are not in the visible list until then; when a response with
\* show_hidden = true arrives the setting becomes true and the hidden entries
\* of the listing become visible, without any navigation or new listing.
C16_HiddenUntilSettings ==
    [][/\ hiddenWhilePending
       /\ hiddenWhilePending'
       /\ \A v \in BOOLEAN : SettingsLoaded(v) => showHiddenFiles' = v
       /\ settingsArrive =>
            /\ files' = files
            /\ currentView' = currentView
            /\ navigatedPath' = navigatedPath
            /\ showHiddenFiles' =>
                  \A i \in 1..Len(files) :
                      ~notHidden(files[i]) /\ passesOtherFilters(files[i]) =>
                          files[i] \in Range(filteredFiles')]_vars

\* the root was listed before the settings arrived; they arrived with
\* show_hidden = true and the hidden folder and the hidden file are visible,
\* nothing having been navigated to
C16_Witness ==
    /\ open
    /\ ~settingsPending
    /\ showHiddenFiles
    /\ navigatedPath = Undefined
    /\ currentView = "files"
    /\ files = DirectoryListing(RootPath)
    /\ \E f \in Range(filteredFiles) : ~notHidden(f) /\ f.type = "folder"
    /\ \E f \in Range(filteredFiles) : ~notHidden(f) /\ f.type = "file"

(***************************************************************************)
(* Button clicks, and the selection when the path changes.                 *)
(***************************************************************************)
\* a step in which a directory lookup of a button click ends
lookupEnds ==
    \E i \in 1..Len(pendingLookups) : pendingLookups' = RemoveAt(pendingLookups, i)

\* C17: every click on a dialog button is followed, whether the directory
\* lookup for the implicit selection succeeds or fails, by exactly one call of
\* the caller's button callback and exactly one close event with the same
\* nodes, so that the session ends after a confirmation and no I/O failure
\* escapes unhandled.
C17_ClickDeliversOnce ==
    [][lookupEnds =>
            /\ Len(callbackLog') = Len(callbackLog) + 1
            /\ Len(closeLog') = Len(closeLog) + 1
            /\ closeLog'[Len(closeLog')] = WithNodes(callbackLog'[Len(callbackLog')])
            /\ ~open'
            /\ unhandled' = unhandled]_vars

\* C18: whenever the current path changes, also when it becomes '/' or the
\* former path again because the view was switched, the selection is empty
\* afterwards.
C18_PathChangeClearsSelection ==
    [][open' /\ currentPath' # currentPath => selectedFiles' = << >>]_vars

(***************************************************************************)
(* The filter text.                                                        *)
(***************************************************************************)
\* a step in which the free-text query of a mounted dialog changes
queryChanges == open' /\ filterString' # filterString

\* C21: setFilterText changes only the free-text query and the visible list
\* derived from it: no listing is requested from the store, and the view, the
\* current path, the persisted last-visited path and the selection are
\* unchanged, also when selected entries are no longer visible.
C21_FilterTextChangesOnlyQuery ==
    [][queryChanges =>
            /\ files' = files
            /\ isLoading' = isLoading
            /\ currentView' = currentView
            /\ currentPath' = currentPath
            /\ storage' = storage
            /\ selectedFiles' = selectedFiles
            /\ filteredFiles' = (SelectSeq(files, passesAll))']_vars

\* a file of /Ab is selected and the query B, which its name does not hold,
\* was typed afterwards: the entry is selected and not visible
C21_Witness ==
    /\ open
    /\ ~isLoading
    /\ filterString = <<"B">>
    /\ files = DirectoryListing(DocsPath)
    /\ Len(selectedFiles) = 1
    /\ selectedFiles[1].basename = <<"a">>
    /\ selectedFiles[1] \notin Range(filteredFiles)
    /\ filteredFiles # << >>

(***************************************************************************)
(* The button callback and the settled promise.                            *)
(***************************************************************************)
\* C22: for every interleaving of button clicks, dismissals and a pending
\* directory lookup, the caller's button callback is called at most once in a
\* session, and never after the promise of the session was settled, as by a
\* dismissal that came while the lookup was pending.
C22_CallbackOnceBeforeSettled ==
    [][callbackLog' # callbackLog =>
            /\ callbackLog = << >>
            /\ promise.state = "pending"]_vars

====
